---- MODULE Spec2Model ----
(***************************************************************************)
(* Session and artifact-exchange protocol of the FHE image filter demo:   *)
(* the compute server (fhe_server.py) and the client orchestrator         *)
(* (mcp_server.py).  Names, paths and blobs are strings; the artifact      *)
(* stores are functions from the paths that exist to their content.       *)
(***************************************************************************)
EXTENDS Integers, Sequences, FiniteSets, TLC

VARIABLES
    fhe_servers,    \* server: the filter registry FHE_SERVERS
    store,          \* server: files under SERVER_TMP_PATH, path -> content
    resp,           \* server: the call that completed last (request, locals, outcome)
    sent,           \* history: key <<user_id, filter>> -> the file lists uploaded for it
    touched,        \* history: the keys <<user_id, filter>> requested so far
    computed,       \* history: key -> output of its last completed run_fhe/fhe_full
    failed,         \* history: key -> inputs read by a failed run_fhe, until the next upload
    nreq,           \* number of server calls started so far
    procs,          \* concurrent server: the job and the handler in flight per session
    client_store,   \* client: files under CLIENT_TMP_PATH, path -> content
    key_dirs,       \* client: key directories in which key material was generated
    minted,         \* client: number of uuid4 values drawn so far
    jobs,           \* client: the tool calls made so far, in order
    tool            \* client: the tool call that completed last

serverVars == <<fhe_servers, store, resp, sent, touched, computed, failed, nreq>>
clientVars == <<client_store, key_dirs, minted, jobs, tool>>
vars == <<serverVars, procs, clientVars>>

-----------------------------------------------------------------------------
(* Bounds and input sets *)

MaxRequests == 3
MaxTimed == 3
MaxStaged == 4
MaxJobs == 2
MaxDecrypts == 2

\* common.AVAILABLE_FILTERS: the statically configured filter names
AVAILABLE_FILTERS == {"blur", "bl%75r"}

\* filter names and user ids that callers send to the server
RequestFilters == {"blur", "blur_x"}
UserIds == {"u1", "x_u1"}
Keys == UserIds \X RequestFilters

\* uploaded file lists: complete pairs and a list that lacks the key
FileLists == {<<"I1", "K1">>, <<"I22", "K22">>, <<"I3">>}

\* readings of time.time() in milliseconds: the wall clock, which can be set
\* back between two readings
Clock == {0, 4, 5, 16, 27}

\* what the environment decides during one handler step: whether the engine
\* raises, whether a write reaches the disk at once or stays in the writer's
\* buffer until the file is closed, and the clock readings before and after
\* the engine call.  The readings decide the reported time and nothing else
\* (ClockIrrelevant); they vary in the specification Timed.
Choices == [raises : BOOLEAN, flush : BOOLEAN, start : {0}, end : {0}]

-----------------------------------------------------------------------------
(* The filter registry and the engine (external collaborator) *)

FHEServer(filter) == [deployment |-> "filters/" \o filter \o "/deployment"]

FHE_SERVERS == [filter \in AVAILABLE_FILTERS |-> FHEServer(filter)]

get_available_filters == AVAILABLE_FILTERS

\* FHEServer.run: a function of its arguments and of the engine's deployment
EngineRun(server, encrypted_image, evaluation_key) ==
    "run(" \o server.deployment \o "," \o encrypted_image \o "," \o evaluation_key \o ")"

-----------------------------------------------------------------------------
(* Artifact store *)

\* a path that leaves the user id out
PathWithoutUser(name, user_id, filter_name) ==
    "server_tmp/" \o name \o "_" \o filter_name

get_server_file_path(name, user_id, filter_name) ==
    "server_tmp/" \o name \o "_" \o filter_name \o "_" \o user_id

get_client_file_path(name, id, filter_name) ==
    "client_tmp/" \o name \o "_" \o filter_name \o "_" \o id

Exists(st, path) == path \in DOMAIN st

\* an open for writing that keeps the content of an existing file
OpenKeeps(st, path) ==
    [q \in DOMAIN st \cup {path} |-> IF q \in DOMAIN st THEN st[q] ELSE ""]

\* open(path, "wb"): creates the file or truncates it
OpenWB(st, path) ==
    [q \in DOMAIN st \cup {path} |-> IF q = path THEN "" ELSE st[q]]

\* bytes written at offset 0 of an existing file: they replace its first
\* Len(data) bytes and leave what lies beyond them
WriteAt0(st, path, data) ==
    LET cur == IF path \in DOMAIN st THEN st[path] ELSE ""
        rest == IF Len(cur) > Len(data) THEN SubSeq(cur, Len(data) + 1, Len(cur)) ELSE ""
    IN  [q \in DOMAIN st \cup {path} |-> IF q = path THEN data \o rest ELSE st[q]]

\* file.write(data) on a buffered writer: the data reaches the disk now or
\* waits in the buffer; returns the store and the pending buffer
BufferedWrite(st, path, data, flush) ==
    IF flush THEN [store |-> WriteAt0(st, path, data), buf |-> <<>>]
    ELSE [store |-> st, buf |-> <<data>>]

\* file.close(): what is pending in the buffer reaches the disk
Close(st, path, buf) ==
    IF buf = <<>> THEN st ELSE WriteAt0(st, path, buf[1])

-----------------------------------------------------------------------------
(* Request handlers, one step per I/O operation.  A handler in flight is a *)
(* record l: its request, its position pc, its local variables, the       *)
(* writers' pending buffers, its outcome and the engine calls it made.    *)

NewCall(op, user_id, filter, files, first) ==
    [op |-> op, user_id |-> user_id, filter |-> filter, files |-> files,
     pc |-> first,
     encrypted_image |-> "", evaluation_key |-> "", encrypted_output_image |-> "",
     buf_image |-> <<>>, buf_key |-> <<>>, buf_output |-> <<>>,
     outcome |-> "running", body |-> "", ran |-> <<>>,
     start |-> 0, finish |-> 0, fhe_execution_time |-> 0]

\* round(seconds, 2) on a time in milliseconds: the nearest multiple of 10 ms,
\* a tie going to the even one; \div rounds down and % is never negative
Round2(ms) ==
    LET q == ms \div 10
        r == ms % 10
    IN  IF r < 5 THEN 10 * q
        ELSE IF r > 5 THEN 10 * (q + 1)
        ELSE IF q % 2 = 0 THEN 10 * q ELSE 10 * (q + 1)

Raise(l, error) == [l EXCEPT !.outcome = error, !.pc = "done"]

\* a send_input that removes the output computed from an earlier upload
SendInputInvalidates(st, l, nd) ==
    LET encrypted_image_path == get_server_file_path("encrypted_image", l.user_id, l.filter)
        evaluation_key_path == get_server_file_path("evaluation_key", l.user_id, l.filter)
        encrypted_output_path == get_server_file_path("encrypted_output", l.user_id, l.filter)
    IN  CASE l.pc = "open_image" ->
               [store |-> OpenWB([q \in DOMAIN st \ {encrypted_output_path} |-> st[q]],
                                 encrypted_image_path),
                l |-> [l EXCEPT !.pc = "open_key"]]
          [] l.pc = "open_key" ->
               [store |-> OpenWB(st, evaluation_key_path),
                l |-> [l EXCEPT !.pc = "write_image"]]
          [] l.pc = "write_image" ->
               LET w == BufferedWrite(st, encrypted_image_path, l.files[1], nd.flush)
               IN  [store |-> w.store,
                    l |-> [l EXCEPT !.buf_image = w.buf, !.pc = "write_key"]]
          [] l.pc = "write_key" ->
               IF Len(l.files) < 2
               THEN [store |-> st,
                     l |-> [l EXCEPT !.outcome = "IndexError", !.pc = "close_key"]]
               ELSE LET w == BufferedWrite(st, evaluation_key_path, l.files[2], nd.flush)
                    IN  [store |-> w.store,
                         l |-> [l EXCEPT !.buf_key = w.buf, !.pc = "close_key"]]
          [] l.pc = "close_key" ->
               [store |-> Close(st, evaluation_key_path, l.buf_key),
                l |-> [l EXCEPT !.buf_key = <<>>, !.pc = "close_image"]]
          [] l.pc = "close_image" ->
               [store |-> Close(st, encrypted_image_path, l.buf_image),
                l |-> [l EXCEPT !.buf_image = <<>>,
                                !.outcome = IF l.outcome = "running" THEN "ok" ELSE l.outcome,
                                !.pc = "done"]]

\* /send_input: the two "wb" opens and the two writes inside one
\* with-statement, which closes the key file first and the image file last
SendInputStep(st, l, nd) ==
    LET encrypted_image_path == get_server_file_path("encrypted_image", l.user_id, l.filter)
        evaluation_key_path == get_server_file_path("evaluation_key", l.user_id, l.filter)
    IN  CASE l.pc = "open_image" ->
               [store |-> OpenWB(st, encrypted_image_path),
                l |-> [l EXCEPT !.pc = "open_key"]]
          [] l.pc = "open_key" ->
               [store |-> OpenWB(st, evaluation_key_path),
                l |-> [l EXCEPT !.pc = "write_image"]]
          [] l.pc = "write_image" ->
               LET w == BufferedWrite(st, encrypted_image_path, l.files[1], nd.flush)
               IN  [store |-> w.store,
                    l |-> [l EXCEPT !.buf_image = w.buf, !.pc = "write_key"]]
          [] l.pc = "write_key" ->
               IF Len(l.files) < 2
               THEN \* files[1] raises IndexError; the with-statement still closes
                    [store |-> st,
                     l |-> [l EXCEPT !.outcome = "IndexError", !.pc = "close_key"]]
               ELSE LET w == BufferedWrite(st, evaluation_key_path, l.files[2], nd.flush)
                    IN  [store |-> w.store,
                         l |-> [l EXCEPT !.buf_key = w.buf, !.pc = "close_key"]]
          [] l.pc = "close_key" ->
               [store |-> Close(st, evaluation_key_path, l.buf_key),
                l |-> [l EXCEPT !.buf_key = <<>>, !.pc = "close_image"]]
          [] l.pc = "close_image" ->
               [store |-> Close(st, encrypted_image_path, l.buf_image),
                l |-> [l EXCEPT !.buf_image = <<>>,
                                !.outcome = IF l.outcome = "running" THEN "ok" ELSE l.outcome,
                                !.pc = "done"]]

\* the two "rb" opens and the two reads of run_fhe (lines 73-77)
ReadInputs(st, l, next) ==
    LET encrypted_image_path == get_server_file_path("encrypted_image", l.user_id, l.filter)
        evaluation_key_path == get_server_file_path("evaluation_key", l.user_id, l.filter)
    IN  CASE l.pc = "open_image_rb" ->
               [store |-> st,
                l |-> IF Exists(st, encrypted_image_path)
                      THEN [l EXCEPT !.pc = "open_key_rb"]
                      ELSE Raise(l, "FileNotFoundError")]
          [] l.pc = "open_key_rb" ->
               [store |-> st,
                l |-> IF Exists(st, evaluation_key_path)
                      THEN [l EXCEPT !.pc = "read_image"]
                      ELSE Raise(l, "FileNotFoundError")]
          [] l.pc = "read_image" ->
               [store |-> st,
                l |-> [l EXCEPT !.encrypted_image = st[encrypted_image_path],
                                !.pc = "read_key"]]
          [] l.pc = "read_key" ->
               [store |-> st,
                l |-> [l EXCEPT !.evaluation_key = st[evaluation_key_path],
                                !.pc = next]]

ReadInputsPcs == {"open_image_rb", "open_key_rb", "read_image", "read_key"}

\* a lookup that lets the handler return quietly for an unregistered name
LookupReturnsEarly(registry, l, next) ==
    IF l.filter \in DOMAIN registry
    THEN [l EXCEPT !.pc = next]
    ELSE [l EXCEPT !.outcome = "ok", !.pc = "done"]

\* fhe_server = FHE_SERVERS[filter]: KeyError for a name outside the registry
Lookup(registry, l, next) ==
    IF l.filter \in DOMAIN registry
    THEN [l EXCEPT !.pc = next]
    ELSE Raise(l, "KeyError")

\* fhe_server.run(encrypted_image, evaluation_key): the engine is invoked and
\* either raises or yields the encrypted output
RunEngine(registry, l, nd, next) ==
    LET called == [l EXCEPT !.start = nd.start,
                            !.ran = Append(l.ran,
                                <<l.filter, l.encrypted_image, l.evaluation_key>>)]
    IN  IF nd.raises
        THEN Raise(called, "ComputeEngineError")
        ELSE [called EXCEPT
                !.encrypted_output_image =
                    EngineRun(registry[l.filter], l.encrypted_image, l.evaluation_key),
                !.finish = nd.end,
                !.fhe_execution_time = Round2(nd.end - nd.start),
                !.pc = next]

\* with encrypted_output_path.open("wb") as f: f.write(encrypted_output_image)
WriteOutput(st, l, nd, next) ==
    LET encrypted_output_path == get_server_file_path("encrypted_output", l.user_id, l.filter)
    IN  CASE l.pc = "open_output" ->
               [store |-> OpenWB(st, encrypted_output_path),
                l |-> [l EXCEPT !.pc = "write_output"]]
          [] l.pc = "write_output" ->
               LET w == BufferedWrite(st, encrypted_output_path,
                                      l.encrypted_output_image, nd.flush)
               IN  [store |-> w.store,
                    l |-> [l EXCEPT !.buf_output = w.buf, !.pc = "close_output"]]
          [] l.pc = "close_output" ->
               [store |-> Close(st, encrypted_output_path, l.buf_output),
                l |-> [l EXCEPT !.buf_output = <<>>, !.pc = next]]

WriteOutputPcs == {"open_output", "write_output", "close_output"}

\* a run_fhe that removes the uploaded inputs when it fails
RunFheCleansUp(registry, st, l, nd) ==
    LET r == CASE l.pc \in ReadInputsPcs -> ReadInputs(st, l, "lookup")
               [] l.pc = "lookup" -> [store |-> st, l |-> Lookup(registry, l, "run")]
               [] l.pc = "run" ->
                    [store |-> st, l |-> RunEngine(registry, l, nd, "open_output")]
               [] l.pc \in WriteOutputPcs -> WriteOutput(st, l, nd, "return")
               [] l.pc = "return" ->
                    [store |-> st, l |-> [l EXCEPT !.outcome = "ok", !.pc = "done"]]
        inputs == {get_server_file_path("encrypted_image", l.user_id, l.filter),
                   get_server_file_path("evaluation_key", l.user_id, l.filter)}
    IN  IF r.l.outcome \in {"KeyError", "ComputeEngineError"}
        THEN [store |-> [q \in DOMAIN st \ inputs |-> st[q]], l |-> r.l]
        ELSE r

\* a run_fhe that opens its output file before it runs the engine
RunFheOpensOutputFirst(registry, st, l, nd) ==
    CASE l.pc \in ReadInputsPcs -> ReadInputs(st, l, "lookup")
      [] l.pc = "lookup" -> [store |-> st, l |-> Lookup(registry, l, "open_output")]
      [] l.pc = "open_output" ->
           [store |-> OpenWB(st, get_server_file_path("encrypted_output", l.user_id, l.filter)),
            l |-> [l EXCEPT !.pc = "run"]]
      [] l.pc = "run" -> [store |-> st, l |-> RunEngine(registry, l, nd, "write_output")]
      [] l.pc \in {"write_output", "close_output"} -> WriteOutput(st, l, nd, "return")
      [] l.pc = "return" ->
           [store |-> st, l |-> [l EXCEPT !.outcome = "ok", !.pc = "done"]]

\* /run_fhe
RunFheStep(registry, st, l, nd) ==
    CASE l.pc \in ReadInputsPcs -> ReadInputs(st, l, "lookup")
      [] l.pc = "lookup" -> [store |-> st, l |-> Lookup(registry, l, "run")]
      [] l.pc = "run" -> [store |-> st, l |-> RunEngine(registry, l, nd, "open_output")]
      [] l.pc \in WriteOutputPcs -> WriteOutput(st, l, nd, "return")
      [] l.pc = "return" ->
           \* JSONResponse(content=fhe_execution_time)
           [store |-> st, l |-> [l EXCEPT !.outcome = "ok", !.pc = "done"]]

\* with encrypted_output_path.open("rb") as f: encrypted_output = f.read()
ReadOutput(st, l, next) ==
    LET encrypted_output_path == get_server_file_path("encrypted_output", l.user_id, l.filter)
    IN  CASE l.pc = "open_output_rb" ->
               [store |-> st,
                l |-> IF Exists(st, encrypted_output_path)
                      THEN [l EXCEPT !.pc = "read_output"]
                      ELSE Raise(l, "FileNotFoundError")]
          [] l.pc = "read_output" ->
               [store |-> st,
                l |-> [l EXCEPT !.body = st[encrypted_output_path], !.pc = next]]

ReadOutputPcs == {"open_output_rb", "read_output"}

\* a get_output that removes the output file once it has returned it
GetOutputConsumes(st, l) ==
    LET encrypted_output_path == get_server_file_path("encrypted_output", l.user_id, l.filter)
    IN  CASE l.pc \in ReadOutputPcs -> ReadOutput(st, l, "return")
          [] l.pc = "return" ->
               [store |-> [q \in DOMAIN st \ {encrypted_output_path} |-> st[q]],
                l |-> [l EXCEPT !.outcome = "ok", !.pc = "done"]]

\* /get_output
GetOutputStep(st, l) ==
    CASE l.pc \in ReadOutputPcs -> ReadOutput(st, l, "return")
      [] l.pc = "return" ->
           [store |-> st, l |-> [l EXCEPT !.outcome = "ok", !.pc = "done"]]

\* /fhe_full, step 1 (lines 122-131): save the uploaded files
FheFullSave(st, l, nd) ==
    LET encrypted_image_path == get_server_file_path("encrypted_image", l.user_id, l.filter)
        evaluation_key_path == get_server_file_path("evaluation_key", l.user_id, l.filter)
    IN  CASE l.pc = "open_image" ->
               [store |-> OpenWB(st, encrypted_image_path),
                l |-> [l EXCEPT !.pc = "open_key"]]
          [] l.pc = "open_key" ->
               [store |-> OpenWB(st, evaluation_key_path),
                l |-> [l EXCEPT !.pc = "write_image"]]
          [] l.pc = "write_image" ->
               LET w == BufferedWrite(st, encrypted_image_path, l.files[1], nd.flush)
               IN  [store |-> w.store,
                    l |-> [l EXCEPT !.buf_image = w.buf, !.pc = "write_key"]]
          [] l.pc = "write_key" ->
               IF Len(l.files) < 2
               THEN [store |-> st,
                     l |-> [l EXCEPT !.outcome = "IndexError", !.pc = "close_key"]]
               ELSE LET w == BufferedWrite(st, evaluation_key_path, l.files[2], nd.flush)
                    IN  [store |-> w.store,
                         l |-> [l EXCEPT !.buf_key = w.buf, !.pc = "close_key"]]
          [] l.pc = "close_key" ->
               [store |-> Close(st, evaluation_key_path, l.buf_key),
                l |-> [l EXCEPT !.buf_key = <<>>, !.pc = "close_image"]]
          [] l.pc = "close_image" ->
               [store |-> Close(st, encrypted_image_path, l.buf_image),
                l |-> [l EXCEPT !.buf_image = <<>>,
                                !.pc = IF l.outcome = "running"
                                       THEN "open_image_rb" ELSE "done"]]

FheFullSavePcs ==
    {"open_image", "open_key", "write_image", "write_key", "close_key", "close_image"}

\* /fhe_full, step 2 (lines 133-151): read the files back, run the engine,
\* write the encrypted output
FheFullCompute(registry, st, l, nd) ==
    LET encrypted_image_path == get_server_file_path("encrypted_image", l.user_id, l.filter)
        evaluation_key_path == get_server_file_path("evaluation_key", l.user_id, l.filter)
        encrypted_output_path == get_server_file_path("encrypted_output", l.user_id, l.filter)
    IN  CASE l.pc = "open_image_rb" ->
               [store |-> st,
                l |-> IF Exists(st, encrypted_image_path)
                      THEN [l EXCEPT !.pc = "open_key_rb"]
                      ELSE Raise(l, "FileNotFoundError")]
          [] l.pc = "open_key_rb" ->
               [store |-> st,
                l |-> IF Exists(st, evaluation_key_path)
                      THEN [l EXCEPT !.pc = "read_image"]
                      ELSE Raise(l, "FileNotFoundError")]
          [] l.pc = "read_image" ->
               [store |-> st,
                l |-> [l EXCEPT !.encrypted_image = st[encrypted_image_path],
                                !.pc = "read_key"]]
          [] l.pc = "read_key" ->
               [store |-> st,
                l |-> [l EXCEPT !.evaluation_key = st[evaluation_key_path],
                                !.pc = "lookup"]]
          [] l.pc = "lookup" ->
               [store |-> st,
                l |-> IF l.filter \in DOMAIN registry
                      THEN [l EXCEPT !.pc = "run"]
                      ELSE Raise(l, "KeyError")]
          [] l.pc = "run" ->
               LET called == [l EXCEPT !.start = nd.start,
                                       !.ran = Append(l.ran,
                                           <<l.filter, l.encrypted_image, l.evaluation_key>>)]
               IN  [store |-> st,
                    l |-> IF nd.raises
                          THEN Raise(called, "ComputeEngineError")
                          ELSE [called EXCEPT
                                  !.encrypted_output_image =
                                      EngineRun(registry[l.filter], l.encrypted_image,
                                                l.evaluation_key),
                                  !.finish = nd.end,
                                  !.fhe_execution_time = Round2(nd.end - nd.start),
                                  !.pc = "open_output"]]
          [] l.pc = "open_output" ->
               [store |-> OpenWB(st, encrypted_output_path),
                l |-> [l EXCEPT !.pc = "write_output"]]
          [] l.pc = "write_output" ->
               LET w == BufferedWrite(st, encrypted_output_path,
                                      l.encrypted_output_image, nd.flush)
               IN  [store |-> w.store,
                    l |-> [l EXCEPT !.buf_output = w.buf, !.pc = "close_output"]]
          [] l.pc = "close_output" ->
               [store |-> Close(st, encrypted_output_path, l.buf_output),
                l |-> [l EXCEPT !.buf_output = <<>>, !.pc = "open_output_rb"]]

FheFullComputePcs ==
    {"open_image_rb", "open_key_rb", "read_image", "read_key", "lookup", "run",
     "open_output", "write_output", "close_output"}

\* fhe_full returning the wrong artifact: it reads the encrypted image back
FheFullReturnsInput(st, l) ==
    LET encrypted_output_path == get_server_file_path("encrypted_image", l.user_id, l.filter)
    IN  CASE l.pc = "open_output_rb" ->
               [store |-> st,
                l |-> IF Exists(st, encrypted_output_path)
                      THEN [l EXCEPT !.pc = "read_output"]
                      ELSE Raise(l, "FileNotFoundError")]
          [] l.pc = "read_output" ->
               [store |-> st,
                l |-> [l EXCEPT !.body = st[encrypted_output_path],
                                !.outcome = "ok", !.pc = "done"]]

\* /fhe_full, step 3 (lines 153-164): read the output file and return it
FheFullReturn(st, l) ==
    LET encrypted_output_path == get_server_file_path("encrypted_output", l.user_id, l.filter)
    IN  CASE l.pc = "open_output_rb" ->
               [store |-> st,
                l |-> IF Exists(st, encrypted_output_path)
                      THEN [l EXCEPT !.pc = "read_output"]
                      ELSE Raise(l, "FileNotFoundError")]
          [] l.pc = "read_output" ->
               [store |-> st,
                l |-> [l EXCEPT !.body = st[encrypted_output_path],
                                !.outcome = "ok", !.pc = "done"]]

\* /fhe_full
FheFullStep(registry, st, l, nd) ==
    CASE l.pc \in FheFullSavePcs -> FheFullSave(st, l, nd)
      [] l.pc \in FheFullComputePcs -> FheFullCompute(registry, st, l, nd)
      [] OTHER -> FheFullReturn(st, l)

\* one step of whichever handler l is in
Step(registry, st, l, nd) ==
    CASE l.op = "send_input" -> SendInputStep(st, l, nd)
      [] l.op = "run_fhe" -> RunFheStep(registry, st, l, nd)
      [] l.op = "get_output" -> GetOutputStep(st, l)
      [] l.op = "fhe_full" -> FheFullStep(registry, st, l, nd)

FirstPc(op) ==
    CASE op = "send_input" -> "open_image"
      [] op = "run_fhe" -> "open_image_rb"
      [] op = "get_output" -> "open_output_rb"
      [] op = "fhe_full" -> "open_image"

\* a handler run from its first step to its end with no other handler's
\* step in between: a request served alone
RECURSIVE Finish(_, _, _)
Finish(registry, r, nd) ==
    IF r.l.pc = "done" THEN r
    ELSE Finish(registry, Step(registry, r.store, r.l, nd), nd)

Call(registry, st, op, user_id, filter, files, nd) ==
    Finish(registry,
           [store |-> st, l |-> NewCall(op, user_id, filter, files, FirstPc(op))], nd)

-----------------------------------------------------------------------------
(* The server with its requests served one at a time *)

NoCall == NewCall("none", "", "", <<>>, "done")

\* the client before any tool call
NoTool ==
    [op |-> "none", outcome |-> "none", filter_name |-> "", user_id |-> "",
     output_id |-> "", key_dir |-> "", output_path |-> "", status_code |-> 0,
     execution_time |-> "", status |-> "", content |-> "", job |-> 0, trace |-> <<>>]

ClientInit ==
    /\ client_store = <<>>
    /\ key_dirs = {}
    /\ minted = 0
    /\ jobs = <<>>
    /\ tool = NoTool

NoProcs == <<>>

Init ==
    /\ fhe_servers = FHE_SERVERS
    /\ store = <<>>
    /\ resp = NoCall
    /\ sent = <<>>
    /\ touched = {}
    /\ computed = <<>>
    /\ failed = <<>>
    /\ nreq = 0
    /\ procs = NoProcs
    /\ ClientInit

\* f with key k mapped to v
Put(f, k, v) == [x \in DOMAIN f \cup {k} |-> IF x = k THEN v ELSE f[x]]

\* history of a call that has completed
Record(l) ==
    LET key == <<l.user_id, l.filter>>
        upload == l.op \in {"send_input", "fhe_full"}
        ran_ok == l.op \in {"run_fhe", "fhe_full"} /\ l.outcome = "ok"
        compute_failed == l.op = "run_fhe" /\ l.outcome \in {"KeyError", "ComputeEngineError"}
    IN  /\ touched' = touched \cup {key}
        /\ sent' = IF upload
                   THEN Put(sent, key, Append(IF key \in DOMAIN sent THEN sent[key] ELSE <<>>,
                                              l.files))
                   ELSE sent
        /\ computed' = IF ran_ok THEN Put(computed, key, l.encrypted_output_image)
                       ELSE computed
        /\ failed' = IF upload THEN <<>>
                     ELSE IF compute_failed
                     THEN Put(failed, key, <<l.encrypted_image, l.evaluation_key>>)
                     ELSE failed

\* Served alone, a handler closes every file it wrote before any other handler
\* reads it, so when its writes reach the disk makes no difference to the
\* result (FlushIrrelevant); the serialized server takes them as immediate.
Serially(raises) == [raises |-> raises, flush |-> TRUE, start |-> 0, end |-> 0]

Serve(op, user_id, filter, files, raises) ==
    /\ nreq < MaxRequests
    /\ \E r \in {Call(fhe_servers, store, op, user_id, filter, files, Serially(raises))} :
           /\ store' = r.store
           /\ resp' = r.l
           /\ Record(r.l)
    /\ nreq' = nreq + 1
    /\ UNCHANGED <<fhe_servers, procs, clientVars>>

SendInput ==
    \E user_id \in UserIds, filter \in RequestFilters, files \in FileLists :
        Serve("send_input", user_id, filter, files, FALSE)

RunFhe ==
    \E user_id \in UserIds, filter \in RequestFilters, raises \in BOOLEAN :
        Serve("run_fhe", user_id, filter, <<>>, raises)

GetOutput ==
    \E user_id \in UserIds, filter \in RequestFilters :
        Serve("get_output", user_id, filter, <<>>, FALSE)

FheFull ==
    \E user_id \in UserIds, filter \in RequestFilters, files \in FileLists,
       raises \in BOOLEAN :
        Serve("fhe_full", user_id, filter, files, raises)

Next == SendInput \/ RunFhe \/ GetOutput \/ FheFull

Spec == Init /\ [][Next]_vars

-----------------------------------------------------------------------------
(* The server with its requests served one at a time for one key, the     *)
(* clock read before and after each engine call.                           *)

ServeAt(op, user_id, filter, files, nd) ==
    /\ nreq < MaxTimed
    /\ \E r \in {Call(fhe_servers, store, op, user_id, filter, files, nd)} :
           /\ store' = r.store
           /\ resp' = r.l
           /\ Record(r.l)
    /\ nreq' = nreq + 1
    /\ UNCHANGED <<fhe_servers, procs, clientVars>>

\* the engine's behaviour and the two clock readings of one call
Timings == [raises : BOOLEAN, flush : {TRUE}, start : Clock, end : Clock]

TimedSendInput == ServeAt("send_input", "u1", "blur", <<"I1", "K1">>, Serially(FALSE))

TimedRunFhe == \E nd \in Timings : ServeAt("run_fhe", "u1", "blur", <<>>, nd)

TimedFheFull == \E nd \in Timings : ServeAt("fhe_full", "u1", "blur", <<"I22", "K22">>, nd)

NextTimed == TimedSendInput \/ TimedRunFhe \/ TimedFheFull

Timed == Init /\ [][NextTimed]_vars

-----------------------------------------------------------------------------
(* The staged protocol on one key: send_input, run_fhe and get_output     *)
(* served one at a time, in any order, all for the same user and filter.  *)

ServeStaged(op, files, raises) ==
    /\ nreq < MaxStaged
    /\ \E r \in {Call(fhe_servers, store, op, "u1", "blur", files, Serially(raises))} :
           /\ store' = r.store
           /\ resp' = r.l
           /\ Record(r.l)
    /\ nreq' = nreq + 1
    /\ UNCHANGED <<fhe_servers, procs, clientVars>>

StagedSendInput == \E files \in FileLists : ServeStaged("send_input", files, FALSE)

StagedRunFhe == \E raises \in BOOLEAN : ServeStaged("run_fhe", <<>>, raises)

StagedGetOutput == ServeStaged("get_output", <<>>, FALSE)

NextStaged == StagedSendInput \/ StagedRunFhe \/ StagedGetOutput

OneKey == Init /\ [][NextStaged]_vars

-----------------------------------------------------------------------------
(* The server with requests in flight concurrently.  Each session is one  *)
(* job: a client that sends send_input, run_fhe, get_output one after the *)
(* other, each after the previous one succeeded, or one fhe_full.  The    *)
(* handlers of different sessions interleave at their I/O operations.     *)

Sessions == {"s1", "s2"}

\* the payload each session uploads
Payload(s) == IF s = "s1" THEN <<"I1", "K1">> ELSE <<"I22", "K22">>

Jobs(s) ==
    [user_id : UserIds, filter : RequestFilters, files : {Payload(s)},
     fused : BOOLEAN, l : {NoCall}]

InitConcurrent ==
    /\ fhe_servers = FHE_SERVERS
    /\ store = <<>>
    /\ resp = NoCall
    /\ sent = <<>>
    /\ touched = {}
    /\ computed = <<>>
    /\ failed = <<>>
    /\ nreq = 0
    /\ procs \in {f \in [Sessions -> UNION {Jobs(s) : s \in Sessions}] :
                    \A s \in Sessions : f[s] \in Jobs(s)}
    /\ ClientInit

\* the call a session sends next, "none" when its job has ended
NextOp(job) ==
    CASE job.l.op = "none" -> IF job.fused THEN "fhe_full" ELSE "send_input"
      [] job.l.op = "send_input" /\ job.l.outcome = "ok" -> "run_fhe"
      [] job.l.op = "run_fhe" /\ job.l.outcome = "ok" -> "get_output"
      [] OTHER -> "none"

\* a request arrives: its handler starts
Begin(s) ==
    /\ procs[s].l.pc = "done"
    /\ NextOp(procs[s]) # "none"
    /\ procs' = [procs EXCEPT ![s].l =
                    NewCall(NextOp(procs[s]), procs[s].user_id, procs[s].filter,
                            IF NextOp(procs[s]) \in {"send_input", "fhe_full"}
                            THEN procs[s].files ELSE <<>>,
                            FirstPc(NextOp(procs[s])))]
    /\ UNCHANGED <<serverVars, clientVars>>

\* a store with a lock per path: a handler waits while a handler of another
\* session that uses the same image path is in flight
HandlerStepLocked(s) ==
    /\ procs[s].l.pc # "done"
    /\ \A q \in Sessions \ {s} :
          \/ procs[q].l.pc = "done"
          \/ get_server_file_path("encrypted_image", procs[q].user_id, procs[q].filter)
               # get_server_file_path("encrypted_image", procs[s].user_id, procs[s].filter)
    /\ \E nd \in Choices :
         \E r \in {Step(fhe_servers, store, procs[s].l, nd)} :
            /\ store' = r.store
            /\ procs' = [procs EXCEPT ![s].l = r.l]
    /\ UNCHANGED <<fhe_servers, resp, sent, touched, computed, failed, nreq, clientVars>>

\* the handler of session s performs its next I/O operation
HandlerStep(s) ==
    /\ procs[s].l.pc # "done"
    /\ \E nd \in Choices :
         \E r \in {Step(fhe_servers, store, procs[s].l, nd)} :
            /\ store' = r.store
            /\ procs' = [procs EXCEPT ![s].l = r.l]
    /\ UNCHANGED <<fhe_servers, resp, sent, touched, computed, failed, nreq, clientVars>>

NextConcurrent == \E s \in Sessions : Begin(s) \/ HandlerStep(s)

Concurrent == InitConcurrent /\ [][NextConcurrent]_vars

-----------------------------------------------------------------------------
(* The client orchestrator (mcp_server.py) and the decryption service.    *)
(* A tool call runs from its first line to its return or to the first     *)
(* exception; the remote call of a job is an fhe_full served by the       *)
(* server.                                                                 *)

\* images a job can be pointed at, and what a download of each yields
ImageUrls == {"http://img/photo", "http://img/icon", "http://img/page"}
Downloaded(image_url) ==
    CASE image_url = "http://img/photo" -> "jpeg:photo"
      [] image_url = "http://img/icon" -> "png:icon"
      [] OTHER -> "html:page"

\* PIL.Image.open accepts the content
IsImage(content) == content \in {"jpeg:photo", "png:icon"}

\* Image.open(image_path): the mode and the size (width, height) of the image
ImageOpen(content) ==
    IF content = "jpeg:photo" THEN [mode |-> "RGB", size |-> <<640, 480>>]
    ELSE [mode |-> "RGBA", size |-> <<100, 100>>]

\* the shape the model requires: 100 rows, 100 columns, 3 channels
RequiredSize == <<100, 100>>
RequiredShape == <<100, 100, 3>>

\* if input_image.mode != 'RGB': input_image = input_image.convert('RGB')
ConvertRGB(input_image) ==
    IF input_image.mode # "RGB" THEN [input_image EXCEPT !.mode = "RGB"] ELSE input_image

\* if input_image.size != (100, 100): input_image = input_image.resize((100, 100))
Resize(input_image) ==
    IF input_image.size # RequiredSize
    THEN [input_image EXCEPT !.size = RequiredSize] ELSE input_image

\* numpy.array(input_image).shape: rows, columns, channels of the mode
ArrayShape(input_image) ==
    <<input_image.size[2], input_image.size[1]>>
        \o (CASE input_image.mode = "RGB" -> <<3>>
              [] input_image.mode = "RGBA" -> <<4>>
              [] OTHER -> <<>>)

\* filter names the tools are called with
ToolFilters == AVAILABLE_FILTERS \cup {"sepia"}

\* what the network and the engine do during one job
Environments == [net_fails : BOOLEAN, raises : BOOLEAN]

Digits == "0123456789"

\* str(uuid.uuid4()): the n-th value drawn, different from every other one
Uuid(n) ==
    "id" \o SubSeq(Digits, (n \div 10) + 1, (n \div 10) + 1)
         \o SubSeq(Digits, (n % 10) + 1, (n % 10) + 1)

\* the last value Uuid can spell with two digits
MaxUuid == Len(Digits) * Len(Digits) - 1

LowerHex == "0123456789abcdef"
UpperHex == "0123456789ABCDEF"
IsHex(c) == \E v \in 1..16 : c = SubSeq(LowerHex, v, v) \/ c = SubSeq(UpperHex, v, v)
HexVal(c) ==
    (CHOOSE v \in 1..16 : c = SubSeq(LowerHex, v, v) \/ c = SubSeq(UpperHex, v, v)) - 1

\* the printable ASCII characters of codes 32 to 95 and of codes 97 to 126
AsciiLow == " !\"#$%&'()*+,-./0123456789:;<=>?@ABCDEFGHIJKLMNOPQRSTUVWXYZ[\\]^_"
AsciiHigh == "abcdefghijklmnopqrstuvwxyz{|}~"

\* the character of a byte; a byte outside these tables keeps a spelling of
\* its own, different from every character
Chr(hi, lo) ==
    LET n == 16 * HexVal(hi) + HexVal(lo)
    IN  IF n >= 32 /\ n <= 95 THEN SubSeq(AsciiLow, n - 31, n - 31)
        ELSE IF n >= 97 /\ n <= 126 THEN SubSeq(AsciiHigh, n - 96, n - 96)
        ELSE "<0x" \o hi \o lo \o ">"

\* urllib.parse.unquote: every %XX with two hex digits becomes its character
RECURSIVE unquote(_)
unquote(string) ==
    IF string = "" THEN ""
    ELSE IF /\ Head(string) = "%"
            /\ Len(string) >= 3
            /\ IsHex(SubSeq(string, 2, 2))
            /\ IsHex(SubSeq(string, 3, 3))
         THEN Chr(SubSeq(string, 2, 2), SubSeq(string, 3, 3))
                  \o unquote(SubSeq(string, 4, Len(string)))
         ELSE Head(string) \o unquote(Tail(string))

\* KEYS_PATH / f"{filter_name}_{user_id}"
KeyDir(filter_name, user_id) == "keys/" \o filter_name \o "_" \o user_id

\* FHEClient(FILTERS_PATH / f"{filter_name}/deployment", ...) loads the
\* deployment of a configured filter and fails for any other name
Deployed(filter_name) == filter_name \in AVAILABLE_FILTERS

\* FHEClient.encrypt_serialize and get_serialized_evaluation_keys
Encrypt(key_dir, image) == "enc(" \o key_dir \o "," \o image \o ")"
EvaluationKeys(key_dir) == "evk(" \o key_dir \o ")"

\* what requests.post returns for a served fhe_full: the handler's Response,
\* or the framework's 500 answer when the handler raised
HttpResponse(l) ==
    IF l.outcome = "ok"
    THEN [status_code |-> 200, content |-> l.body, execution_time |-> "elapsed"]
    ELSE [status_code |-> 500, content |-> "Internal Server Error", execution_time |-> "0"]

\* a tool call that ends in an exception
Abort(c, error) == [c EXCEPT !.tool.outcome = error]

\* process_image_with_fhe, lines 72-81: download, mint user_id, load the
\* client, generate the keys
JobKeys(c, image_url, filter_name) ==
    LET image_path == "client_tmp/" \o Uuid(c.minted + 1) \o ".jpg"
        user_id == Uuid(c.minted + 2)
        key_dir == KeyDir(filter_name, user_id)
        c1 == [c EXCEPT !.client_store = Put(c.client_store, image_path,
                                              Downloaded(image_url)),
                        !.minted = c.minted + 2,
                        !.image_path = image_path,
                        !.tool.filter_name = filter_name,
                        !.tool.user_id = user_id,
                        !.tool.trace = <<"download_image", "mint_user_id">>]
    IN  IF ~Deployed(filter_name) THEN Abort(c1, "ClientLoadError")
        ELSE [c1 EXCEPT !.key_dirs = c1.key_dirs \cup {key_dir},
                        !.tool.key_dir = key_dir,
                        !.tool.trace = c1.tool.trace \o <<"FHEClient", "generate_keys">>]

\* lines 83-105: open, convert, resize, check the shape, encrypt
JobEncrypt(c) ==
    LET content == c.client_store[c.image_path]
        input_image == Resize(ConvertRGB(ImageOpen(content)))
    IN  IF ~IsImage(content) THEN Abort(c, "UnidentifiedImageError")
        ELSE IF ArrayShape(input_image) # RequiredShape THEN Abort(c, "AssertionError")
        ELSE [c EXCEPT !.files = <<Encrypt(c.tool.key_dir, content),
                                   EvaluationKeys(c.tool.key_dir)>>,
                       !.tool.trace = c.tool.trace \o <<"preprocess", "encrypt">>]

\* lines 108-118: one POST to /fhe_full; a network failure raises, any
\* response that arrives is taken as it is
JobRemote(registry, c, env) ==
    IF env.net_fails THEN Abort(c, "ConnectionError")
    ELSE LET r == Call(registry, c.store, "fhe_full", c.tool.user_id, c.tool.filter_name,
                       c.files, Serially(env.raises))
             response == HttpResponse(r.l)
         IN  [c EXCEPT !.store = r.store,
                       !.served = <<r.l>>,
                       !.tool.status_code = response.status_code,
                       !.tool.execution_time = response.execution_time,
                       !.tool.content = response.content,
                       !.tool.trace = c.tool.trace \o <<"post_fhe_full">>]

\* lines 120-132: mint output_id, save the encrypted output, return
JobPersist(c) ==
    LET output_id == Uuid(c.minted + 1)
        output_path == get_client_file_path("output", output_id, c.tool.filter_name)
    IN  [c EXCEPT !.minted = c.minted + 1,
                  !.client_store = Put(c.client_store, output_path, c.tool.content),
                  !.tool.output_id = output_id,
                  !.tool.output_path = output_path,
                  !.tool.status = "success",
                  !.tool.outcome = "ok",
                  !.tool.trace = c.tool.trace \o <<"mint_output_id", "save_output", "return">>]

\* the client and the server as a tool call sees and changes them
Context(op) ==
    [store |-> store, served |-> <<>>, client_store |-> client_store,
     key_dirs |-> key_dirs, minted |-> minted, image_path |-> "", files |-> <<>>,
     tool |-> [NoTool EXCEPT !.op = op, !.outcome = "running"]]

Running(c) == c.tool.outcome = "running"

\* a job that saves its output before it has sent its request
ProcessPersistsFirst(registry, c, image_url, filter_name, env) ==
    LET c1 == JobKeys(c, image_url, filter_name)
        c2 == IF Running(c1) THEN JobEncrypt(c1) ELSE c1
        c3 == IF Running(c2) THEN [JobPersist(c2) EXCEPT !.tool.outcome = "running"] ELSE c2
        c4 == IF Running(c3) THEN JobRemote(registry, c3, env) ELSE c3
    IN  IF Running(c4) THEN [c4 EXCEPT !.tool.outcome = "ok"] ELSE c4

\* a job that opens and checks its image only after the request was sent
ProcessValidatesLate(registry, c, image_url, filter_name, env) ==
    LET c1 == JobKeys(c, image_url, filter_name)
        c2 == IF Running(c1)
              THEN [c1 EXCEPT !.files = <<Encrypt(c1.tool.key_dir,
                                                  c1.client_store[c1.image_path]),
                                          EvaluationKeys(c1.tool.key_dir)>>]
              ELSE c1
        c3 == IF Running(c2) THEN JobRemote(registry, c2, env) ELSE c2
        c4 == IF Running(c3) THEN JobEncrypt(c3) ELSE c3
    IN  IF Running(c4) THEN JobPersist(c4) ELSE c4

\* process_image_with_fhe
process_image_with_fhe(registry, c, image_url, filter_name, env) ==
    LET c1 == JobKeys(c, image_url, filter_name)
        c2 == IF Running(c1) THEN JobEncrypt(c1) ELSE c1
        c3 == IF Running(c2) THEN JobRemote(registry, c2, env) ELSE c2
    IN  IF Running(c3) THEN JobPersist(c3) ELSE c3

\* decrypt_output_image, lines 145-159: decode the filter name, load the
\* client, generate the keys, read the stored output
DecryptRead(c, user_id, filter_name, output_id) ==
    LET decoded_filter_name == unquote(filter_name)
        key_dir == KeyDir(decoded_filter_name, user_id)
        output_path == get_client_file_path("output", output_id, decoded_filter_name)
        c1 == [c EXCEPT !.tool.filter_name = decoded_filter_name,
                        !.tool.user_id = user_id,
                        !.tool.output_id = output_id]
        c2 == [c1 EXCEPT !.key_dirs = c1.key_dirs \cup {key_dir},
                         !.tool.key_dir = key_dir,
                         !.tool.output_path = output_path,
                         !.tool.trace = <<"FHEClient", "generate_keys">>]
    IN  IF ~Deployed(decoded_filter_name) THEN Abort(c1, "ClientLoadError")
        ELSE IF ~Exists(c2.client_store, output_path) THEN Abort(c2, "FileNotFoundError")
        ELSE [c2 EXCEPT !.tool.content = c2.client_store[output_path],
                        !.tool.trace = c2.tool.trace \o <<"read_output">>]

\* lines 161-180: decrypt, save the image under a new name, return its URL
DecryptSave(c) ==
    LET image_uuid == Uuid(c.minted + 1)
        temp_jpg_path == get_client_file_path("temp_jpg_" \o image_uuid,
                                              c.tool.user_id \o ".jpeg", c.tool.filter_name)
    IN  [c EXCEPT !.minted = c.minted + 1,
                  !.client_store = Put(c.client_store, temp_jpg_path,
                                       "dec(" \o c.tool.key_dir \o "," \o c.tool.content \o ")"),
                  !.tool.outcome = "ok",
                  !.tool.trace = c.tool.trace \o <<"decrypt", "save_jpeg", "return">>]

\* decrypt_output_image
decrypt_output_image(c, user_id, filter_name, output_id) ==
    LET c1 == DecryptRead(c, user_id, filter_name, output_id)
    IN  IF Running(c1) THEN DecryptSave(c1) ELSE c1

\* the state after a tool call
Commit(c) ==
    /\ store' = c.store
    /\ client_store' = c.client_store
    /\ key_dirs' = c.key_dirs
    /\ minted' = c.minted
    /\ IF c.served = <<>>
       THEN UNCHANGED <<resp, sent, touched, computed, failed, nreq>>
       ELSE resp' = c.served[1] /\ Record(c.served[1]) /\ nreq' = nreq + 1
    /\ UNCHANGED <<fhe_servers, procs>>

\* the number of calls of a tool so far
Calls(op) == Len(SelectSeq(jobs, LAMBDA j : j.op = op))

ProcessImage ==
    /\ Calls("process_image_with_fhe") < MaxJobs
    /\ minted + 3 <= MaxUuid
    /\ \E image_url \in ImageUrls, filter_name \in ToolFilters, env \in Environments :
         \E c \in {process_image_with_fhe(fhe_servers, Context("process_image_with_fhe"),
                                          image_url, filter_name, env)} :
            /\ Commit(c)
            /\ jobs' = Append(jobs, c.tool)
            /\ tool' = [c.tool EXCEPT !.job = Len(jobs) + 1]

\* the decryption service called with the values a job returned
DecryptOutput ==
    /\ Calls("decrypt_output_image") < MaxDecrypts
    /\ minted + 1 <= MaxUuid
    /\ \E i \in 1..Len(jobs) :
         /\ jobs[i].op = "process_image_with_fhe"
         /\ jobs[i].status = "success"
         /\ \E c \in {decrypt_output_image(Context("decrypt_output_image"), jobs[i].user_id,
                                           jobs[i].filter_name, jobs[i].output_id)} :
               /\ Commit(c)
               /\ jobs' = Append(jobs, [c.tool EXCEPT !.job = i])
               /\ tool' = [c.tool EXCEPT !.job = i]

NextClient == ProcessImage \/ DecryptOutput

Client == Init /\ [][NextClient]_vars

-----------------------------------------------------------------------------
(* Properties of the serialized server *)

\* what a caller observes of a call, and what the call leaves behind
Observed(r) ==
    [store |-> r.store, outcome |-> r.l.outcome, body |-> r.l.body, ran |-> r.l.ran]

\* submit, then compute, then fetch with the same arguments, stopping at the
\* first stage that fails
Staged(registry, st, user_id, filter, files, nd) ==
    LET s == Call(registry, st, "send_input", user_id, filter, files, nd)
        c == Call(registry, s.store, "run_fhe", user_id, filter, <<>>, nd)
        g == Call(registry, c.store, "get_output", user_id, filter, <<>>, nd)
    IN  IF s.l.outcome # "ok" THEN Observed(s)
        ELSE IF c.l.outcome # "ok" THEN Observed(c)
        ELSE [Observed(g) EXCEPT !.ran = c.l.ran]

\* the call that the step just taken served, as it was requested
Served(op) == resp'.op = op /\ nreq' = nreq + 1

\* the engine raised in the step just taken
Raised == resp'.outcome = "ComputeEngineError"

\* Served alone, a call's result does not depend on the buffering of writes.
FlushIrrelevant ==
    [][Observed(Call(fhe_servers, store, resp'.op, resp'.user_id, resp'.filter,
                     resp'.files,
                     [raises |-> Raised, flush |-> FALSE, start |-> 0, end |-> 0]))
       = [store |-> store', outcome |-> resp'.outcome, body |-> resp'.body,
          ran |-> resp'.ran]]_vars

\* C1: from every reachable content of the artifact store and for every user
\* id, filter, uploaded file list and engine behaviour, a served fhe_full
\* returns the same bytes, ends with the same outcome, invokes the engine on the
\* same arguments and leaves the same artifacts as send_input, run_fhe and
\* get_output served in sequence with the same arguments.
C1_FullEqualsStaged ==
    [][Served("fhe_full") =>
         [store |-> store', outcome |-> resp'.outcome, body |-> resp'.body,
          ran |-> resp'.ran]
         = Staged(fhe_servers, store, resp'.user_id, resp'.filter, resp'.files,
                  Serially(Raised))]_vars

\* fhe_full has succeeded on a key whose three artifacts existed before
C1_Witness ==
    /\ resp.op = "fhe_full"
    /\ resp.outcome = "ok"
    /\ resp.body = EngineRun(FHE_SERVERS[resp.filter], resp.files[1], resp.files[2])
    /\ nreq >= 3
    /\ <<resp.user_id, resp.filter>> \in DOMAIN computed

-----------------------------------------------------------------------------
(* Properties of the concurrent server *)

\* two jobs with distinct user ids and the same filter
Apart(p, q) ==
    /\ p # q
    /\ procs[p].user_id # procs[q].user_id
    /\ procs[p].filter = procs[q].filter

\* the artifact of a kind stored for a job's key, <<>> when there is none
Artifact(st, kind, job) ==
    LET path == get_server_file_path(kind, job.user_id, job.filter)
    IN  IF path \in DOMAIN st THEN <<st[path]>> ELSE <<>>

ArtifactKinds == {"encrypted_image", "evaluation_key", "encrypted_output"}

\* the output a job's fetch or fhe_full returned is the engine's result for
\* that job's own upload
OwnOutput(job) ==
    (job.l.op \in {"get_output", "fhe_full"} /\ job.l.outcome = "ok")
        => job.l.body = EngineRun(fhe_servers[job.filter], job.files[1], job.files[2])

\* C2: of two concurrent jobs with distinct user ids and the same filter, in
\* every interleaving of their file operations and engine calls, each job's
\* get_output or fhe_full returns the engine's result for its own upload, and
\* a step of one job changes no artifact of the other job's key.
C2_JobsApart ==
    /\ [](\A p, q \in Sessions : Apart(p, q) => OwnOutput(procs[p]))
    /\ [][\A p, q \in Sessions :
            (Apart(p, q) /\ procs'[p] # procs[p]) =>
                \A kind \in ArtifactKinds :
                    Artifact(store', kind, procs[q]) = Artifact(store, kind, procs[q])]_vars

\* a staged job has fetched its output while a fused job of another user and
\* the same filter is between its engine call and its write of the output
C2_Witness ==
    \E p, q \in Sessions :
        /\ Apart(p, q)
        /\ ~procs[p].fused /\ procs[p].l.op = "get_output" /\ procs[p].l.outcome = "ok"
        /\ procs[p].l.body = EngineRun(fhe_servers[procs[p].filter],
                                        procs[p].files[1], procs[p].files[2])
        /\ procs[q].fused /\ procs[q].l.pc = "open_output"

\* session q uploads, or has uploaded, to the paths session p computes on
Racing(p, q) ==
    /\ p # q
    /\ get_server_file_path("encrypted_image", procs[q].user_id, procs[q].filter)
         = get_server_file_path("encrypted_image", procs[p].user_id, procs[p].filter)
    /\ procs[q].l.op # "none"

\* the (image, key) pairs on which the run_fhe of session p has run the engine
PairsRun(p) ==
    IF procs[p].l.op = "run_fhe"
    THEN {<<procs[p].l.ran[i][2], procs[p].l.ran[i][3]>> : i \in 1..Len(procs[p].l.ran)}
    ELSE {}

\* C11: the store has no locking: a handler in flight can always take its
\* next step, whatever the handlers of other sessions are doing on the same
\* key; and a run_fhe runs the engine on a pair other than the complete pair
\* its own session uploaded only when another session uploads to the same
\* paths.  That such a run_fhe exists is C11_Witness.
C11_RacyStore ==
    \A p \in Sessions :
        /\ procs[p].l.pc # "done" => ENABLED HandlerStep(p)
        /\ (PairsRun(p) \ {procs[p].files} # {}) => \E q \in Sessions : Racing(p, q)

\* a run_fhe racing a send_input of another session on the same (user_id,
\* filter) key has run the engine on a pair that is neither the complete pair
\* of the earlier upload nor the complete pair of the new one
C11_Witness ==
    \E p, q \in Sessions :
        /\ p # q
        /\ procs[p].user_id = procs[q].user_id
        /\ procs[p].filter = procs[q].filter
        /\ procs[q].l.op = "send_input"
        /\ PairsRun(p) # {}
        /\ PairsRun(p) \cap {procs[p].files, procs[q].files} = {}

\* the key of a call
KeyOf(l) == <<l.user_id, l.filter>>

\* the artifact of a kind stored for a key, <<>> when there is none
Stored(st, kind, key) ==
    LET path == get_server_file_path(kind, key[1], key[2])
    IN  IF path \in DOMAIN st THEN <<st[path]>> ELSE <<>>

Last(seq) == seq[Len(seq)]

\* C3: any two distinct (kind, filter, identity) triples the server has been
\* asked about have different storage paths, under get_server_file_path and
\* under get_client_file_path.
C3_PathsInjective ==
    \A k1, k2 \in touched, n1, n2 \in ArtifactKinds :
        <<n1, k1>> # <<n2, k2>> =>
            /\ get_server_file_path(n1, k1[1], k1[2]) # get_server_file_path(n2, k2[1], k2[2])
            /\ get_client_file_path(n1, k1[1], k1[2]) # get_client_file_path(n2, k2[1], k2[2])

\* C4: while all calls so far are for one key, a run_fhe that reaches the
\* engine runs it on exactly the image and key of the most recent complete
\* upload for that key.
C4_ComputeUsesLastSubmit ==
    (/\ resp.op = "run_fhe"
     /\ touched = {KeyOf(resp)}
     /\ KeyOf(resp) \in DOMAIN sent
     /\ Len(Last(sent[KeyOf(resp)])) = 2)
        => /\ resp.outcome # "FileNotFoundError"
           /\ resp.encrypted_image = Last(sent[KeyOf(resp)])[1]
           /\ resp.evaluation_key = Last(sent[KeyOf(resp)])[2]
           /\ resp.filter \in AVAILABLE_FILTERS =>
                 resp.ran = << <<resp.filter, Last(sent[KeyOf(resp)])[1],
                                 Last(sent[KeyOf(resp)])[2]>> >>

\* two send_input calls with different payloads, then a run_fhe that ran the
\* engine on the second payload
C4_Witness ==
    /\ resp.op = "run_fhe"
    /\ resp.outcome = "ok"
    /\ touched = {KeyOf(resp)}
    /\ KeyOf(resp) \in DOMAIN sent
    /\ sent[KeyOf(resp)] = << <<"I22", "K22">>, <<"I1", "K1">> >>
    /\ resp.ran = << <<resp.filter, "I1", "K1">> >>
    /\ nreq = 3

\* C5: get_output fails with FileNotFoundError when no run_fhe or fhe_full has
\* completed for exactly its key, and run_fhe fails with FileNotFoundError when
\* no send_input or fhe_full was called for exactly its key; in both cases the
\* engine is not invoked and the store is unchanged.
C5_NotFoundBeforeWrite ==
    [][( (Served("get_output") /\ KeyOf(resp') \notin DOMAIN computed)
         \/ (Served("run_fhe") /\ KeyOf(resp') \notin DOMAIN sent) )
       => /\ resp'.outcome = "FileNotFoundError"
          /\ resp'.ran = <<>>
          /\ store' = store]_vars

\* C7: a run_fhe that fails with an engine error or an unknown filter leaves
\* the stored image and key of its key unchanged, and a later run_fhe for the
\* same key, with no upload in between, reads the same image and key and,
\* when the filter is registered, runs the engine on them.
C7_FailedComputeKeepsInputs ==
    [][/\ (Served("run_fhe") /\ resp'.outcome \in {"KeyError", "ComputeEngineError"})
            => /\ Stored(store', "encrypted_image", KeyOf(resp'))
                    = Stored(store, "encrypted_image", KeyOf(resp'))
               /\ Stored(store', "evaluation_key", KeyOf(resp'))
                    = Stored(store, "evaluation_key", KeyOf(resp'))
       /\ (Served("run_fhe") /\ KeyOf(resp') \in DOMAIN failed)
            => /\ resp'.outcome # "FileNotFoundError"
               /\ <<resp'.encrypted_image, resp'.evaluation_key>> = failed[KeyOf(resp')]
               /\ resp'.filter \in AVAILABLE_FILTERS =>
                     resp'.ran = << <<resp'.filter>> \o failed[KeyOf(resp')] >>]_vars

\* a run_fhe failed on an engine error and a later run_fhe on the same key,
\* with no upload in between, succeeded on the same inputs
C7_Witness ==
    /\ resp.op = "run_fhe"
    /\ resp.outcome = "ok"
    /\ KeyOf(resp) \in DOMAIN failed
    /\ resp.ran = << <<resp.filter>> \o failed[KeyOf(resp)] >>

\* C9: on the server, run_fhe reads the image and key of the last complete
\* upload to its key, and get_output reads the output last written for its key.
C9_RoundTrip ==
    [][/\ (Served("run_fhe") /\ KeyOf(resp') \in DOMAIN sent
             /\ Len(Last(sent[KeyOf(resp')])) = 2)
            => /\ resp'.encrypted_image = Last(sent[KeyOf(resp')])[1]
               /\ resp'.evaluation_key = Last(sent[KeyOf(resp')])[2]
       /\ (Served("get_output") /\ KeyOf(resp') \in DOMAIN computed)
            => resp'.body = computed[KeyOf(resp')]]_vars

\* the registry is the one built at start-up, one engine per configured name
RegistryFixed ==
    /\ fhe_servers = FHE_SERVERS
    /\ DOMAIN fhe_servers = AVAILABLE_FILTERS
    /\ \A filter \in get_available_filters : filter \in DOMAIN fhe_servers

\* a run_fhe or fhe_full with an unregistered filter name was just served
ServedUnknown ==
    /\ Served("run_fhe") \/ Served("fhe_full")
    /\ resp'.filter \notin AVAILABLE_FILTERS

\* C10 as stated: the registry never changes, every listed name is registered,
\* and run_fhe or fhe_full with an unregistered name fails with KeyError,
\* invokes no engine and writes no encrypted_output.
C10_UnknownFilterAlways ==
    [][/\ RegistryFixed'
       /\ ServedUnknown =>
            /\ resp'.outcome = "KeyError"
            /\ resp'.ran = <<>>
            /\ Stored(store', "encrypted_output", KeyOf(resp'))
                 = Stored(store, "encrypted_output", KeyOf(resp'))]_vars

\* C10 amended: the registry never changes, every listed name is registered,
\* and run_fhe or fhe_full with an unregistered name never succeeds, invokes
\* no engine and writes no encrypted_output; it fails with KeyError unless an
\* earlier step of the call failed first: FileNotFoundError when run_fhe finds
\* no stored image and key, IndexError when fhe_full got fewer than two files.
C10_UnknownFilter ==
    [][/\ RegistryFixed'
       /\ ServedUnknown =>
            /\ resp'.ran = <<>>
            /\ Stored(store', "encrypted_output", KeyOf(resp'))
                 = Stored(store, "encrypted_output", KeyOf(resp'))
            /\ resp'.outcome =
                 IF resp'.op = "fhe_full"
                 THEN IF Len(resp'.files) < 2 THEN "IndexError" ELSE "KeyError"
                 ELSE IF Stored(store, "encrypted_image", KeyOf(resp')) = <<>>
                         \/ Stored(store, "evaluation_key", KeyOf(resp')) = <<>>
                      THEN "FileNotFoundError" ELSE "KeyError"]_vars

\* a run_fhe with an unregistered name found the uploaded inputs and failed
\* with KeyError, leaving an earlier output of an aliasing key or none
C10_Witness ==
    /\ resp.op = "run_fhe"
    /\ resp.filter \notin AVAILABLE_FILTERS
    /\ resp.outcome = "KeyError"
    /\ resp.encrypted_image = "I1"

-----------------------------------------------------------------------------
(* Properties of the client *)

\* the step just taken was a call of the tool
Called(op) == tool'.op = op /\ Len(jobs') = Len(jobs) + 1

\* the encrypted outputs the client has persisted
Outputs(cs) ==
    {path \in DOMAIN cs : Len(path) >= 18 /\ SubSeq(path, 1, 18) = "client_tmp/output_"}

\* the remote call of the job just run failed: no response, or a response
\* that is not a success
RemoteFailed ==
    /\ Called("process_image_with_fhe")
    /\ tool'.outcome = "ConnectionError" \/ tool'.status_code \notin {0, 200}

\* C6: a job whose remote call fails, by a network failure or a non-success
\* response, ends in an exception after one request at most, persists no
\* output, mints no output_id and returns no success result.
C6_RemoteFailurePropagates ==
    [][RemoteFailed =>
          /\ tool'.outcome \notin {"ok", "running"}
          /\ tool'.status # "success"
          /\ tool'.output_id = ""
          /\ Outputs(client_store') = Outputs(client_store)
          /\ nreq' <= nreq + 1]_vars

\* the part of C6 that the code keeps: a network failure ends the job in
\* the exception, with nothing persisted and nothing sent again
C6_NetworkFailurePropagates ==
    [][(Called("process_image_with_fhe") /\ tool'.outcome = "ConnectionError") =>
          /\ tool'.status # "success"
          /\ tool'.output_id = ""
          /\ Outputs(client_store') = Outputs(client_store)
          /\ nreq' = nreq]_vars

\* C8: decrypt_output_image called with the user_id, filter_name and
\* output_id a completed job returned reads the output that job persisted and
\* uses the key directory that job generated its keys in.
C8_DecryptFindsJob ==
    tool.op = "decrypt_output_image" =>
        /\ tool.key_dir = jobs[tool.job].key_dir
        /\ tool.output_path = jobs[tool.job].output_path
        /\ tool.outcome = "ok"
        /\ tool.content = jobs[tool.job].content

\* the part of C8 that the code keeps: for a filter name that URL-decoding
\* leaves unchanged
C8_DecryptFindsJobUnescaped ==
    (tool.op = "decrypt_output_image"
        /\ unquote(jobs[tool.job].filter_name) = jobs[tool.job].filter_name)
      => /\ tool.key_dir = jobs[tool.job].key_dir
         /\ tool.output_path = jobs[tool.job].output_path
         /\ tool.outcome = "ok"
         /\ tool.content = jobs[tool.job].content

\* the client part of C9: decrypt_output_image reads back exactly what the
\* job persisted, when it reads the job's path
C9_ClientRoundTrip ==
    (tool.op = "decrypt_output_image" /\ tool.output_path = jobs[tool.job].output_path)
        => tool.outcome = "ok" /\ tool.content = jobs[tool.job].content

\* the steps of a job, in the order of process_image_with_fhe
JobSteps ==
    <<"download_image", "mint_user_id", "FHEClient", "generate_keys", "preprocess",
      "encrypt", "post_fhe_full", "mint_output_id", "save_output", "return">>

IsPrefix(a, b) == Len(a) <= Len(b) /\ a = SubSeq(b, 1, Len(a))

\* the calls of process_image_with_fhe made so far
JobIndexes == {i \in 1..Len(jobs) : jobs[i].op = "process_image_with_fhe"}

\* C12: every job runs its steps in the one order download, mint user_id,
\* load the client and generate keys in the key directory of (filter_name,
\* user_id), preprocess, encrypt, one POST to /fhe_full, mint output_id, save
\* the output, return, each step at most once and none after the first
\* failure; a job that returns has run them all and returns user_id,
\* output_id and the execution time; the one request a job sends carries the
\* encrypted image and the evaluation keys; no two jobs share a user_id, a key
\* directory or an output_id.
C12_JobLinear ==
    /\ [](\A i \in JobIndexes :
            /\ IsPrefix(jobs[i].trace, JobSteps)
            /\ jobs[i].outcome = "ok" <=> jobs[i].trace = JobSteps
            /\ jobs[i].key_dir # "" =>
                  /\ jobs[i].key_dir = KeyDir(jobs[i].filter_name, jobs[i].user_id)
                  /\ jobs[i].key_dir \in key_dirs
            /\ jobs[i].outcome = "ok" =>
                  /\ jobs[i].user_id # "" /\ jobs[i].output_id # ""
                  /\ jobs[i].execution_time # ""
                  /\ jobs[i].output_path
                       = get_client_file_path("output", jobs[i].output_id, jobs[i].filter_name)
                  /\ jobs[i].output_path \in DOMAIN client_store
            /\ \A j \in JobIndexes \ {i} :
                  /\ jobs[i].user_id # jobs[j].user_id
                  /\ jobs[i].key_dir # "" => jobs[i].key_dir # jobs[j].key_dir
                  /\ jobs[i].output_id # "" =>
                        /\ jobs[i].output_id # jobs[j].output_id
                        /\ jobs[i].output_path # jobs[j].output_path)
    /\ [][Called("process_image_with_fhe") =>
            IF \E k \in 1..Len(tool'.trace) : tool'.trace[k] = "post_fhe_full"
            THEN /\ nreq' = nreq + 1
                 /\ resp'.op = "fhe_full"
                 /\ resp'.user_id = tool'.user_id /\ resp'.filter = tool'.filter_name
                 /\ \E u \in ImageUrls :
                        resp'.files = <<Encrypt(tool'.key_dir, Downloaded(u)),
                                        EvaluationKeys(tool'.key_dir)>>
            ELSE nreq' = nreq /\ resp' = resp /\ store' = store]_vars

\* two jobs with the same filter have both returned
C12_Witness ==
    \E i, j \in JobIndexes :
        /\ i < j
        /\ jobs[i].outcome = "ok" /\ jobs[j].outcome = "ok"
        /\ jobs[i].filter_name = jobs[j].filter_name
        /\ jobs[i].status_code = 200 /\ jobs[j].status_code = 200

\* the job just run was rejected while its image was opened, converted,
\* resized and checked (lines 84-94)
Rejected ==
    /\ Called("process_image_with_fhe")
    /\ tool'.outcome \in {"UnidentifiedImageError", "AssertionError"}

\* Every image that opens has the required shape once converted and
\* resized, whatever its mode and size: the assertion of line 94 does not fail.
ShapeAlwaysForced ==
    \A i \in JobIndexes : jobs[i].outcome # "AssertionError"

-----------------------------------------------------------------------------
(* Further properties of the serialized server *)

\* what get_output would return for a key from a store: <<bytes>>, or <<>>
\* when it fails
Fetch(st, key) ==
    LET r == Call(fhe_servers, st, "get_output", key[1], key[2], <<>>, Serially(FALSE))
    IN  IF r.l.outcome = "ok" THEN <<r.l.body>> ELSE <<>>

\* the step just taken served a run_fhe or fhe_full for the key
ComputedOn(key) ==
    /\ Served("run_fhe") \/ Served("fhe_full")
    /\ KeyOf(resp') = key

\* two different keys whose artifacts have the same paths
Aliased(k1, k2) ==
    /\ k1 # k2
    /\ get_server_file_path("encrypted_output", k1[1], k1[2])
         = get_server_file_path("encrypted_output", k2[1], k2[2])

\* C14: get_output changes no artifact and invokes no engine, and the bytes
\* get_output returns for a key change only by a run_fhe or fhe_full on that
\* key: after any other call, a get_output that succeeded before returns the
\* same bytes.
C14_FetchRetry ==
    [][/\ Served("get_output") => (store' = store /\ resp'.ran = <<>>)
       /\ \A key \in Keys :
             (nreq' = nreq + 1 /\ ~ComputedOn(key) /\ Fetch(store, key) # <<>>)
                 => Fetch(store', key) = Fetch(store, key)]_vars

\* the part of C14 that the code keeps: get_output is a pure read, and the
\* bytes it returns for a key change only by a run_fhe or fhe_full on that
\* key or on a key with the same paths
C14_FetchRetryApart ==
    [][/\ Served("get_output") => (store' = store /\ resp'.ran = <<>>)
       /\ \A key \in Keys :
             (nreq' = nreq + 1 /\ ~ComputedOn(key) /\ Fetch(store, key) # <<>>
                /\ ~Aliased(key, KeyOf(resp')))
                 => Fetch(store', key) = Fetch(store, key)]_vars

\* run_fhe for the key finds both of its input files in the store: its two
\* opens for reading succeed
CanCompute(st, key) ==
    LET image == ReadInputs(st, NewCall("run_fhe", key[1], key[2], <<>>, "open_image_rb"),
                            "lookup").l
    IN  /\ image.outcome # "FileNotFoundError"
        /\ ReadInputs(st, image, "lookup").l.outcome # "FileNotFoundError"

\* C15: no step deletes a file: every path of the server store, every path
\* of the client store and every key directory that exists before a step
\* exists after it; so for every key requested so far, once get_output finds
\* its output it finds it after every later step, and once run_fhe finds its
\* inputs it finds them after every later step.
C15_NothingDeleted ==
    [][/\ DOMAIN store \subseteq DOMAIN store'
       /\ DOMAIN client_store \subseteq DOMAIN client_store'
       /\ key_dirs \subseteq key_dirs'
       /\ \A key \in touched' :
             /\ Fetch(store, key) # <<>> => Fetch(store', key) # <<>>
             /\ CanCompute(store, key) => CanCompute(store', key)]_vars

\* get_output has succeeded on a key after an upload that failed part-way
\* had followed the computation of its output
C15_Witness ==
    /\ resp.op = "get_output" /\ resp.outcome = "ok"
    /\ nreq = 3
    /\ KeyOf(resp) \in DOMAIN computed /\ KeyOf(resp) \in DOMAIN sent
    /\ Len(sent[KeyOf(resp)]) = 2
    /\ Last(sent[KeyOf(resp)]) = <<"I3">>
    /\ resp.body = computed[KeyOf(resp)]

-----------------------------------------------------------------------------
(* Properties of the reported execution time *)

\* the call served last ran the engine and reports its execution time
Timed_Reported == resp.op \in {"run_fhe", "fhe_full"} /\ resp.outcome = "ok"

\* The clock readings decide the reported time and nothing else.
ClockIrrelevant ==
    [][nreq' = nreq + 1 =>
          Observed(Call(fhe_servers, store, resp'.op, resp'.user_id, resp'.filter,
                        resp'.files, Serially(Raised)))
          = [store |-> store', outcome |-> resp'.outcome, body |-> resp'.body,
             ran |-> resp'.ran]]_vars

\* C16: the execution time that run_fhe and fhe_full report is not negative
\* and is a whole number of hundredths of a second, for every pair of
\* readings of the clock before and after the engine call.
C16_ElapsedRounded ==
    Timed_Reported =>
        /\ resp.fhe_execution_time >= 0
        /\ resp.fhe_execution_time % 10 = 0

\* the part of C16 that the code keeps: the reported time is a whole number
\* of hundredths of a second at most half a hundredth away from the difference
\* of the readings, and it is not negative when the clock was not set back
\* between them
C16_ElapsedRoundedForward ==
    Timed_Reported =>
        /\ resp.fhe_execution_time % 10 = 0
        /\ resp.fhe_execution_time - (resp.finish - resp.start) \in -5..5
        /\ resp.finish >= resp.start => resp.fhe_execution_time >= 0

-----------------------------------------------------------------------------
(* Properties of uploads and of failed computations *)

\* the step just taken served an upload: send_input or fhe_full
Uploaded == Served("send_input") \/ Served("fhe_full")

\* the stored image and key of the key of the call just served
PairAfter ==
    <<Stored(store', "encrypted_image", KeyOf(resp')),
      Stored(store', "evaluation_key", KeyOf(resp'))>>

PairBefore ==
    <<Stored(store, "encrypted_image", KeyOf(resp')),
      Stored(store, "evaluation_key", KeyOf(resp'))>>

\* C17: after a send_input or fhe_full, whether it succeeded or failed
\* part-way, the stored image and key of its key are both the ones this call
\* uploaded or both what they were before the call.
C17_PairStoredTogether ==
    [][Uploaded =>
          \/ /\ Len(resp'.files) >= 2
             /\ PairAfter = << <<resp'.files[1]>>, <<resp'.files[2]>> >>
          \/ PairAfter = PairBefore]_vars

\* the part of C17 that the code keeps: an upload of two files stores both
C17_CompleteUploadStoresPair ==
    [][(Uploaded /\ Len(resp'.files) >= 2) =>
          PairAfter = << <<resp'.files[1]>>, <<resp'.files[2]>> >>]_vars

\* C18 as stated: on one key, a get_output that succeeds after a complete
\* send_input returns the engine's result for the pair of the most recent
\* send_input.
C18_FetchIsFresh ==
    (resp.op = "get_output" /\ resp.outcome = "ok"
        /\ Len(Last(sent[KeyOf(resp)])) = 2) =>
        resp.body = EngineRun(FHE_SERVERS[resp.filter], Last(sent[KeyOf(resp)])[1],
                              Last(sent[KeyOf(resp)])[2])

\* C18 amended: on one key, a run_fhe that succeeds writes the engine's
\* result for the stored pair it read, which is the pair of the most recent
\* send_input when that upload was complete; and from then on every get_output
\* succeeds and returns the output of the most recent successful run_fhe,
\* also when a send_input has followed that run_fhe.
C18_FetchIsLastComputed ==
    [][/\ (Served("run_fhe") /\ resp'.outcome = "ok") =>
            /\ <<<<resp'.encrypted_image>>, <<resp'.evaluation_key>>>> = PairBefore
            /\ Len(Last(sent[KeyOf(resp')])) = 2 =>
                  <<resp'.encrypted_image, resp'.evaluation_key>> = Last(sent[KeyOf(resp')])
            /\ Stored(store', "encrypted_output", KeyOf(resp'))
                 = <<EngineRun(FHE_SERVERS[resp'.filter], resp'.encrypted_image,
                               resp'.evaluation_key)>>
       /\ (Served("get_output") /\ KeyOf(resp') \in DOMAIN computed) =>
            /\ resp'.outcome = "ok"
            /\ resp'.body = computed[KeyOf(resp')]
       /\ (Served("get_output") /\ KeyOf(resp') \notin DOMAIN computed) =>
            resp'.outcome = "FileNotFoundError"]_vars

\* send_input, run_fhe, a second send_input with another payload, then a
\* get_output that returned the output of the first payload
C18_Witness ==
    /\ resp.op = "get_output" /\ resp.outcome = "ok"
    /\ nreq = 4
    /\ sent[KeyOf(resp)] = << <<"I1", "K1">>, <<"I22", "K22">> >>
    /\ resp.body = EngineRun(FHE_SERVERS[resp.filter], "I1", "K1")

\* the ways run_fhe fails
ComputeFailures == {"FileNotFoundError", "KeyError", "ComputeEngineError"}

\* C19: a run_fhe that fails, for missing inputs, an unregistered filter or
\* an engine error, writes nothing: the encrypted_output of its key is absent
\* if it was absent and holds the same bytes if it was present, and every
\* other file of the store is as it was.
C19_FailedComputeWritesNothing ==
    [][(Served("run_fhe") /\ resp'.outcome # "ok") =>
          /\ resp'.outcome \in ComputeFailures
          /\ Stored(store', "encrypted_output", KeyOf(resp'))
               = Stored(store, "encrypted_output", KeyOf(resp'))
          /\ store' = store]_vars

\* a run_fhe has failed on an engine error for a key whose output had been
\* computed before, and that output is still the stored one
C19_Witness ==
    /\ resp.op = "run_fhe" /\ resp.outcome = "ComputeEngineError"
    /\ KeyOf(resp) \in DOMAIN computed
    /\ Stored(store, "encrypted_output", KeyOf(resp)) = <<computed[KeyOf(resp)]>>
    /\ resp.ran # <<>>

====
